---- MODULE Spec2Model ----
(***************************************************************************)
(* code-loom: the real-time collaboration layer of the server.             *)
(*                                                                         *)
(*   server/src/collaboration/yjs-server.ts  the Y.js document registry    *)
(*   server/src/index.ts                     handshake, project rooms,     *)
(*                                           presence, cursors, signaling  *)
(*   server/src/routes/projects.ts           the PUT route of a file       *)
(*   server/src/routes/terminal.ts           (registered twice)            *)
(*                                                                         *)
(* Each socket.io event handler is one action.  A handler runs to          *)
(* completion on the event loop, so an action is atomic, except where the  *)
(* code awaits (join-project awaits Project.findOne): there the handler is *)
(* split at the await.                                                     *)
(***************************************************************************)
EXTENDS Integers, Sequences, FiniteSets, TLC

(***************************************************************************)
(* Bounds of the model.                                                    *)
(***************************************************************************)
\* clocks 0 .. MaxClock-1 of every Y.js client
MaxClock == 2
\* ProjectDoc objects ever created by yjs-connect
MaxEntries == 2
\* yjs-connect calls per socket (each registers its handlers once more)
MaxHandlers == 2
\* setTimeout callbacks outstanding at once
MaxTimers == 2
\* yjs-update events whose packets the delivery observer records
MaxLogged == 3

\* the idle grace period of conn.close, in minutes (5 * 60 * 1000 ms); one
\* Tick is one minute
GraceMinutes == 5

(***************************************************************************)
(* The fixed world: sockets that passed the handshake, their users, and    *)
(* the projects of the database.                                           *)
(***************************************************************************)
Conns == {"c1", "c2", "c3"}

Users == {"u1", "u2", "u3"}

\* socket.data.user._id, set by the authentication middleware
UserOf(c) == CASE c = "c1" -> "u1" [] c = "c2" -> "u2" [] OTHER -> "u3"

ProjectIds == {"p1", "p2"}

FilePaths == {"a"}

\* The Project documents: p1 is private, owned by u1, with u2 a 'view'
\* member; p2 is public, owned by u2, with u1 an 'edit' member.
ProjectDB ==
  [p \in ProjectIds |->
     IF p = "p1"
     THEN [owner |-> "u1", members |-> {[user |-> "u2", permission |-> "view"]},
           isPublic |-> FALSE]
     ELSE [owner |-> "u2", members |-> {[user |-> "u1", permission |-> "edit"]},
           isPublic |-> TRUE]]

\* the role of user u in project p: owner > edit > view > none
RoleOf(u, p) ==
  LET prj == ProjectDB[p]
      ms  == {m \in prj.members : m.user = u}
  IN  IF prj.owner = u THEN "owner"
      ELSE IF ms # {} THEN (CHOOSE m \in ms : TRUE).permission
      ELSE IF prj.isPublic THEN "view"
      ELSE "none"

\* a viewer-role connection: a 'view' member, or a non-member of a public project
IsViewer(c, p) == RoleOf(UserOf(c), p) = "view"

(***************************************************************************)
(* Y.js documents.  An item is identified by (client, clock); a client's   *)
(* items are integrated in clock order, an item that arrives before its    *)
(* predecessor is kept pending.  The text shown is a function of the set   *)
(* of integrated, undeleted items (YATA orders them deterministically), so *)
(* the content of a document is modelled as that set.  Updates are the     *)
(* well-formed ones Y.js replicas with distinct client ids produce.        *)
(***************************************************************************)
YClients == {1, 2}

Ids == YClients \X (0 .. MaxClock - 1)

\* the items a delete may name
DelTargets == {<<1, 0>>}

EmptyDoc ==
  [sv |-> [k \in YClients |-> 0], pend |-> {}, del |-> {}, pendDel |-> {}]

Integrated(doc) == {i \in Ids : i[2] < doc.sv[i[1]]}

\* the text content: the integrated items that are not deleted
Content(doc) == Integrated(doc) \ doc.del

\* the updates a client sends: one inserted item, or one delete
ClientUpdates ==
  {[structs |-> {i}, ds |-> {}] : i \in Ids} \cup
  {[structs |-> {}, ds |-> {i}] : i \in DelTargets}

MergeUpdates(us) ==
  [structs |-> UNION {u.structs : u \in us}, ds |-> UNION {u.ds : u \in us}]

\* Mutant of ApplyUpdate: integrating an item that is already in the store
\* again clears its deleted mark.
ApplyUpdateDupRevives(doc, u) ==
  LET cand == doc.pend \cup {i \in u.structs : i[2] >= doc.sv[i[1]]}
      newSv == [k \in YClients |->
                  CHOOSE n \in doc.sv[k] .. MaxClock :
                    /\ \A m \in doc.sv[k] .. (n - 1) : <<k, m>> \in cand
                    /\ (n = MaxClock \/ <<k, n>> \notin cand)]
      allDs == doc.pendDel \cup u.ds
      nowDel == {i \in allDs : i[2] < newSv[i[1]]}
  IN  [sv |-> newSv,
       pend |-> {i \in cand : i[2] >= newSv[i[1]]},
       del |-> ((doc.del \ u.structs) \cup nowDel),
       pendDel |-> allDs \ nowDel]

\* Y.applyUpdate(doc, update): integrate what can be integrated (the new
\* structs and the pending ones), keep the rest pending, skip what is already
\* integrated; then the same for the delete set.
ApplyUpdate(doc, u) ==
  LET cand == doc.pend \cup {i \in u.structs : i[2] >= doc.sv[i[1]]}
      newSv == [k \in YClients |->
                  CHOOSE n \in doc.sv[k] .. MaxClock :
                    /\ \A m \in doc.sv[k] .. (n - 1) : <<k, m>> \in cand
                    /\ (n = MaxClock \/ <<k, n>> \notin cand)]
      allDs == doc.pendDel \cup u.ds
      nowDel == {i \in allDs : i[2] < newSv[i[1]]}
  IN  [sv |-> newSv,
       pend |-> {i \in cand : i[2] >= newSv[i[1]]},
       del |-> doc.del \cup nowDel,
       pendDel |-> allDs \ nowDel]

\* Y.encodeStateVector(doc)
EncodeStateVector(doc) == doc.sv

\* Y.encodeStateAsUpdate(doc, targetStateVector): the structs the target
\* does not have (integrated or pending), and the whole delete set.
EncodeStateAsUpdate(doc, target) ==
  [structs |-> {i \in Integrated(doc) \cup doc.pend : i[2] >= target[i[1]]},
   ds |-> doc.del \cup doc.pendDel]


(***************************************************************************)
(* State.                                                                  *)
(***************************************************************************)
VARIABLES
  connected,    \* io.sockets.sockets: the sockets that are connected
  projectDocs,  \* yjs-server.ts projectDocs: docKey -> ProjectDoc object, 0 = no entry
  entries,      \* the ProjectDoc objects ever created: [key, doc, connections]
  handlers,     \* per socket, the ProjectDoc each yjs-connect call closed over
  timers,       \* the pending setTimeout callbacks of conn.close, oldest first
  rooms,        \* io.sockets.adapter.rooms: project id -> socket ids in project:<id>
  pendingJoin,  \* join-project handlers suspended at await Project.findOne
  emitted,      \* per socket, the events the last handler emitted to it
  last,         \* observer: the event the last handler processed; for yjs-connect
                \* whether it created the ProjectDoc, for yjs-update the ProjectDocs
                \* that had merged the update before, for the clean-up callback the
                \* ProjectDoc it took out of projectDocs, for disconnect the rooms
                \* the socket was in
  applied,      \* observer: per ProjectDoc, the updates ever applied to its doc
  emptyAge,     \* observer: per ProjectDoc, minutes since its last member left
  view,         \* observer: per socket and project, the roster a client keeps
  tokens,       \* observer: per socket, the token its handshake presented
  files,        \* Project.files: per project, path -> content
  published,    \* observer: per socket, the awareness state it published last
  delivery,     \* observer: the first yjs-update events applied, in order, and
                \* per socket the yjs-update packets emitted to it, in order
  projectProcesses, \* terminal.ts projectProcesses: project id -> ChildProcess, 0 = no entry
  children,     \* the ChildProcess objects ever spawned, each with the response
                \* and the timeout of the /execute request that spawned it
  members,      \* Project.members: per project, the membership entries in order
  invites,      \* Project.invites: per project, the invite subdocuments in order
  inviteIds     \* the number of invite _ids allocated so far

vars == <<connected, projectDocs, entries, handlers, timers, rooms, pendingJoin,
          emitted, last, applied, emptyAge, view, tokens, files, published,
          delivery, projectProcesses, children, members, invites, inviteIds>>

\* what the terminal routes write
termVars == <<projectProcesses, children>>

\* what the invite routes write
inviteVars == <<members, invites, inviteIds>>

\* what no socket.io listener writes
restVars == <<tokens, files, termVars, inviteVars>>

docVars == <<projectDocs, entries, handlers, timers, applied, emptyAge>>

roomVars == <<rooms, pendingJoin, view>>

\* docKey = `${projectId}:${filePath}`
DocKey(p, f) == p \o ":" \o f

DocKeys == {DocKey(p, f) : p \in ProjectIds, f \in FilePaths}

\* the project a docKey was built from
ProjectOfKey(k) == CHOOSE p \in ProjectIds : \E f \in FilePaths : DocKey(p, f) = k

NoEmit == [c \in Conns |-> <<>>]

\* socket.emit(ev, data) on socket `to`: a packet for a socket that is no
\* longer connected is discarded
Emit(em, conn, to, ev, data) ==
  IF to \in conn THEN [em EXCEPT ![to] = Append(@, [ev |-> ev, data |-> data])]
  ELSE em

\* conn.emit(ev, data) for every conn of `targets` but the sender (the
\* forEach of yjs-server.ts, and socket.to(room).emit of index.ts)
Broadcast(em, targets, sender, ev, data) ==
  [c \in Conns |->
     IF c \in targets /\ c # sender
     THEN Append(em[c], [ev |-> ev, data |-> data])
     ELSE em[c]]

\* `/${filePath}` of terminal.ts
Slash(f) == "/" \o f

\* req.params.filePath of the PUT routes
ReqPaths == FilePaths \cup {Slash(f) : f \in FilePaths}

\* the paths project.files may hold
StoredPaths == ReqPaths \cup {Slash(f) : f \in ReqPaths}

\* file contents; "-" stands for no file at the path
Contents == {"x", "y"}

\* the files of a project when it is created: one file, its path with a
\* leading slash (as '/index.js' of the create route)
InitFiles ==
  [q \in StoredPaths |-> IF q \in {Slash(f) : f \in FilePaths} THEN "v0" ELSE "-"]

\* the members array of a Project document, from its entries in ProjectDB
RECURSIVE SeqOf(_)
SeqOf(S) ==
  IF S = {} THEN <<>>
  ELSE LET m == CHOOSE x \in S : TRUE IN <<m>> \o SeqOf(S \ {m})

\* The child processes when the server process has ended: their listeners
\* and the timeouts of their /execute requests are gone with it, and a
\* request that had no answer yet loses its connection.
Orphaned(ch) ==
  [n \in 1 .. Len(ch) |->
     [ch[n] EXCEPT !.attached = FALSE, !.timer = FALSE,
                   !.dropped = @ \/ ch[n].answered = 0]]

\* the server's memory and the database when the process has started
InitServer ==
  /\ projectDocs = [k \in DocKeys |-> 0]
  /\ entries = <<>>
  /\ handlers = [c \in Conns |-> <<>>]
  /\ timers = <<>>
  /\ rooms = [p \in ProjectIds |-> {}]
  /\ pendingJoin = {}
  /\ emitted = NoEmit
  /\ last = [ev |-> "init", conn |-> "-", data |-> "-"]
  /\ applied = <<>>
  /\ emptyAge = <<>>
  /\ view = [c \in Conns |-> [p \in ProjectIds |-> {}]]
  /\ files = [p \in ProjectIds |-> InitFiles]
  /\ published = [c \in Conns |-> "-"]
  /\ projectProcesses = [p \in ProjectIds |-> 0]
  /\ children = <<>>
  /\ members = [p \in ProjectIds |-> SeqOf(ProjectDB[p].members)]
  /\ invites = [p \in ProjectIds |-> <<>>]
  /\ inviteIds = 0

\* the sockets have passed the handshake, each with the token of its user
Init ==
  /\ InitServer
  /\ connected = Conns
  /\ tokens = [c \in Conns |-> "valid"]
  /\ delivery = [on |-> FALSE, log |-> <<>>, inbox |-> NoEmit]

\* no socket has tried the handshake yet
InitAuth ==
  /\ InitServer
  /\ connected = {}
  /\ tokens = [c \in Conns |-> "-"]
  /\ delivery = [on |-> FALSE, log |-> <<>>, inbox |-> NoEmit]

\* as Init, with the delivery observer recording
InitOrder ==
  /\ InitServer
  /\ connected = Conns
  /\ tokens = [c \in Conns |-> "valid"]
  /\ delivery = [on |-> TRUE, log |-> <<>>, inbox |-> NoEmit]

(***************************************************************************)
(* yjs-server.ts                                                           *)
(***************************************************************************)

\* lines 64-65: the update sent as yjs-sync, the document's state encoded
\* against the document's own state vector
SyncUpdate(doc) == EncodeStateAsUpdate(doc, EncodeStateVector(doc))

\* socket.on('yjs-connect')
YjsConnect(c, p, f) ==
  LET docKey == DocKey(p, f)
      fresh  == projectDocs[docKey] = 0
      e      == IF fresh THEN Len(entries) + 1 ELSE projectDocs[docKey]
      ents1  == IF fresh
                THEN Append(entries, [key |-> docKey, doc |-> EmptyDoc, connections |-> {}])
                ELSE entries
      ents2  == [ents1 EXCEPT ![e].connections = @ \cup {c}]
  IN  /\ c \in connected
      /\ Len(handlers[c]) < MaxHandlers
      /\ fresh => Len(entries) < MaxEntries
      /\ projectDocs' = [projectDocs EXCEPT ![docKey] = e]
      /\ entries' = ents2
      /\ applied' = IF fresh THEN Append(applied, {}) ELSE applied
      /\ emptyAge' = IF fresh THEN Append(emptyAge, 0) ELSE emptyAge
      /\ handlers' = [handlers EXCEPT ![c] = Append(@, e)]
      /\ emitted' = Emit(NoEmit, connected, c, "yjs-sync", SyncUpdate(ents2[e].doc))
      /\ last' = [ev |-> "yjs-connect", conn |-> c,
                  data |-> [key |-> docKey, fresh |-> fresh]]
      /\ UNCHANGED <<connected, timers, roomVars, restVars, published, delivery>>

\* Mutant of RunUpdateHandlers: the listener replaces the document's state
\* by the update instead of merging the update into it.
RECURSIVE RunUpdateHandlersOverwrite(_, _, _, _)
RunUpdateHandlersOverwrite(hs, c, u, st) ==
  IF hs = <<>> THEN st
  ELSE LET e == Head(hs)
           ents == [st.entries EXCEPT ![e].doc = ApplyUpdate(EmptyDoc, u)]
           em == Broadcast(st.emitted, ents[e].connections, c, "yjs-update", u)
           ap == [st.applied EXCEPT ![e] = @ \cup {u}]
       IN  RunUpdateHandlersOverwrite(Tail(hs), c, u,
                                      [entries |-> ents, emitted |-> em, applied |-> ap])

\* The 'yjs-update' listeners of socket c, run in the order they were
\* registered: each applies the update to the ProjectDoc it closed over and
\* emits it to that ProjectDoc's other connections.
RECURSIVE RunUpdateHandlers(_, _, _, _)
RunUpdateHandlers(hs, c, u, st) ==
  IF hs = <<>> THEN st
  ELSE LET e == Head(hs)
           ents == [st.entries EXCEPT ![e].doc = ApplyUpdate(@, u)]
           em == Broadcast(st.emitted, ents[e].connections, c, "yjs-update", u)
           ap == [st.applied EXCEPT ![e] = @ \cup {u}]
       IN  RunUpdateHandlers(Tail(hs), c, u,
                             [entries |-> ents, emitted |-> em, applied |-> ap])

\* Mutant of Deliver: a packet emitted later overtakes the ones emitted
\* before it.
DeliverNewestFirst(dl, em, c, u) ==
  IF dl.on /\ Len(dl.log) < MaxLogged
  THEN LET n == Len(dl.log) + 1
       IN  [on |-> TRUE,
            log |-> Append(dl.log, [conn |-> c, data |-> u]),
            inbox |-> [r \in Conns |->
                         [i \in 1 .. Len(em[r]) |-> [n |-> n, data |-> em[r][i].data]]
                           \o dl.inbox[r]]]
  ELSE dl

\* conn.emit('yjs-update', update) (line 57): the packets of one socket leave
\* in the order emit was called.  The observer numbers the yjs-update events
\* in the order their listeners ran, and files each packet under the number
\* of the event that emitted it.
Deliver(dl, em, c, u) ==
  IF dl.on /\ Len(dl.log) < MaxLogged
  THEN LET n == Len(dl.log) + 1
       IN  [on |-> TRUE,
            log |-> Append(dl.log, [conn |-> c, data |-> u]),
            inbox |-> [r \in Conns |->
                         dl.inbox[r] \o
                           [i \in 1 .. Len(em[r]) |-> [n |-> n, data |-> em[r][i].data]]]]
  ELSE dl

\* socket.on('yjs-update'), for every yjs-connect the socket has issued
YjsUpdate(c, u) ==
  LET st == RunUpdateHandlers(handlers[c], c, u,
                              [entries |-> entries, emitted |-> NoEmit, applied |-> applied])
  IN  /\ c \in connected
      /\ entries' = st.entries
      /\ applied' = st.applied
      /\ emitted' = st.emitted
      /\ delivery' = IF handlers[c] # <<>> THEN Deliver(delivery, st.emitted, c, u)
                      ELSE delivery
      /\ last' = [ev |-> "yjs-update", conn |-> c,
                  data |-> {handlers[c][i] : i \in {j \in 1 .. Len(handlers[c]) :
                                                      u \in applied[handlers[c][j]]}}]
      /\ UNCHANGED <<connected, projectDocs, handlers, timers, emptyAge, roomVars, restVars,
                   published>>

\* conn.close() of the closure over ProjectDoc e: delete the socket, and if
\* the set is then empty schedule the clean-up
Close(st, c, e) ==
  LET was  == c \in st.entries[e].connections
      ents == [st.entries EXCEPT ![e].connections = @ \ {c}]
      none == ents[e].connections = {}
  IN  [entries |-> ents,
       timers |-> IF none THEN Append(st.timers, [ent |-> e, rem |-> GraceMinutes])
                  ELSE st.timers,
       emptyAge |-> IF none /\ was THEN [st.emptyAge EXCEPT ![e] = 0] ELSE st.emptyAge]

\* Mutant of RunCloseHandlers: only the listener registered first runs.
RunCloseHandlersFirstOnly(hs, c, st) ==
  IF hs = <<>> THEN st ELSE Close(st, c, Head(hs))

RECURSIVE RunCloseHandlers(_, _, _)
RunCloseHandlers(hs, c, st) ==
  IF hs = <<>> THEN st
  ELSE RunCloseHandlers(Tail(hs), c, Close(st, c, Head(hs)))

\* socket.on('yjs-disconnect'), for every yjs-connect the socket has issued
YjsDisconnect(c) ==
  LET st == RunCloseHandlers(handlers[c], c,
                             [entries |-> entries, timers |-> timers, emptyAge |-> emptyAge])
  IN  /\ c \in connected
      /\ handlers[c] # <<>>
      /\ Len(st.timers) <= MaxTimers
      /\ entries' = st.entries
      /\ timers' = st.timers
      /\ emptyAge' = st.emptyAge
      /\ emitted' = NoEmit
      /\ published' = [published EXCEPT ![c] = "-"]
      /\ last' = [ev |-> "yjs-disconnect", conn |-> c, data |-> "-"]
      /\ UNCHANGED <<connected, projectDocs, handlers, applied, roomVars, restVars, delivery>>

\* the setTimeout callback of conn.close (lines 40-44), the oldest one, due now
TimerFire ==
  /\ timers # <<>>
  /\ Head(timers).rem = 0
  /\ LET e == Head(timers).ent
         docKey == entries[e].key
         gone == entries[e].connections = {}
     IN  /\ projectDocs' = IF gone THEN [projectDocs EXCEPT ![docKey] = 0] ELSE projectDocs
         /\ last' = [ev |-> "timer", conn |-> "-",
                     data |-> [ent |-> e, removed |-> IF gone THEN projectDocs[docKey] ELSE 0]]
  /\ timers' = Tail(timers)
  /\ emitted' = NoEmit
  /\ UNCHANGED <<connected, entries, handlers, applied, emptyAge, roomVars, restVars,
               published, delivery>>

\* one minute passes; a callback that is due runs before more time passes
Tick ==
  /\ timers # <<>>
  /\ Head(timers).rem > 0
  /\ timers' = [i \in 1 .. Len(timers) |-> [timers[i] EXCEPT !.rem = @ - 1]]
  /\ emptyAge' = [e \in 1 .. Len(entries) |->
                    IF entries[e].connections = {} /\ emptyAge[e] < GraceMinutes
                    THEN emptyAge[e] + 1 ELSE emptyAge[e]]
  /\ emitted' = NoEmit
  /\ last' = [ev |-> "tick", conn |-> "-", data |-> "-"]
  /\ UNCHANGED <<connected, projectDocs, entries, handlers, applied, roomVars, restVars,
               published, delivery>>


\* socket.on('yjs-update') with bytes the decoder of Y.applyUpdate rejects.
\* Y.applyUpdate throws in the first listener (line 53, no try/catch in the
\* listener); socket.io calls the listeners from process.nextTick and the
\* process has no 'uncaughtException' listener, so Node ends the process:
\* every socket closes and the registry, the rooms and the timers are gone.
YjsUpdateMalformed(c) ==
  /\ c \in connected
  /\ handlers[c] # <<>>
  /\ connected' = {}
  /\ projectDocs' = [k \in DocKeys |-> 0]
  /\ entries' = <<>>
  /\ applied' = <<>>
  /\ emptyAge' = <<>>
  /\ handlers' = [x \in Conns |-> <<>>]
  /\ timers' = <<>>
  /\ rooms' = [p \in ProjectIds |-> {}]
  /\ pendingJoin' = {}
  /\ view' = [x \in Conns |-> [p \in ProjectIds |-> {}]]
  /\ published' = [x \in Conns |-> "-"]
  /\ emitted' = NoEmit
  /\ last' = [ev |-> "yjs-update-malformed", conn |-> c, data |-> "-"]
  /\ projectProcesses' = [p \in ProjectIds |-> 0]
  /\ children' = Orphaned(children)
  /\ UNCHANGED <<tokens, files, inviteVars, delivery>>

\* the awareness states a client publishes
AwarenessStates == {"s1", "s2"}

\* The 'yjs-awareness' listeners of socket c, in the order they were
\* registered: each emits the state to the other connections of the
\* ProjectDoc it closed over.
RECURSIVE RunAwarenessHandlers(_, _, _, _)
RunAwarenessHandlers(hs, c, s, em) ==
  IF hs = <<>> THEN em
  ELSE RunAwarenessHandlers(Tail(hs), c, s,
         Broadcast(em, entries[Head(hs)].connections, c, "yjs-awareness", s))

\* socket.on('yjs-awareness'), for every yjs-connect the socket has issued
YjsAwareness(c, s) ==
  /\ c \in connected
  /\ handlers[c] # <<>>
  /\ emitted' = RunAwarenessHandlers(handlers[c], c, s, NoEmit)
  /\ published' = [published EXCEPT ![c] = s]
  /\ last' = [ev |-> "yjs-awareness", conn |-> c, data |-> s]
  /\ UNCHANGED <<connected, docVars, roomVars, restVars, delivery>>

(***************************************************************************)
(* index.ts: project rooms.                                                *)
(***************************************************************************)

\* Mutant of HasAccess: the query asks for the project id alone.
HasAccessAnyProject(u, p) == p \in ProjectIds

\* the filter of Project.findOne in join-project (lines 111-118)
HasAccess(u, p) ==
  /\ p \in ProjectIds
  /\ \/ ProjectDB[p].owner = u
     \/ \E m \in ProjectDB[p].members : m.user = u
     \/ ProjectDB[p].isPublic

\* the sockets of room project:<p> that the adapter can still reach
Reachable(rms, conn, p) == rms[p] \cap conn

\* Mutant of ActiveUsers: the sender is left out, as in a roster built from
\* socket.to(room).
ActiveUsersWithoutSelf(rms, conn, p, c) ==
  {UserOf(s) : s \in Reachable(rms, conn, p) \ {c}}

\* lines 138-152: the users of the sockets of the room that are in
\* io.sockets.sockets
ActiveUsers(rms, conn, p, c) == {UserOf(s) : s \in Reachable(rms, conn, p)}

\* what a client that keeps a roster does with the events of one handler
RECURSIVE Roster(_, _)
Roster(r, msgs) ==
  IF msgs = <<>> THEN r
  ELSE LET m == Head(msgs)
       IN  Roster(CASE m.ev = "active-users" -> m.data
                    [] m.ev = "user-joined" -> r \cup {m.data}
                    [] m.ev = "user-left" -> r \ {m.data}
                    [] OTHER -> r,
                  Tail(msgs))

\* the rosters after the events `em` about room p are delivered
ViewAfter(vw, em, p) ==
  [c \in Conns |-> [vw[c] EXCEPT ![p] = Roster(@, em[c])]]

\* socket.on('join-project') up to await Project.findOne
JoinStart(c, p) ==
  /\ c \in connected
  /\ <<c, p>> \notin pendingJoin
  /\ pendingJoin' = pendingJoin \cup {<<c, p>>}
  /\ emitted' = NoEmit
  /\ last' = [ev |-> "join-project", conn |-> c, data |-> p]
  /\ UNCHANGED <<connected, docVars, rooms, view, restVars, published, delivery>>

\* socket.on('join-project') from the await on.  The query may throw
\* (dbError).  socket.join on a socket that disconnected during the await
\* adds the id to the room or does nothing, depending on the socket.io
\* release (lateJoin).
JoinFinish(c, p, dbError, lateJoin) ==
  /\ <<c, p>> \in pendingJoin
  /\ pendingJoin' = pendingJoin \ {<<c, p>>}
  /\ UNCHANGED <<connected, docVars, restVars, published, delivery>>
  /\ IF dbError
     THEN /\ emitted' = Emit(NoEmit, connected, c, "error", "Failed to join project")
          /\ last' = [ev |-> "join-failed", conn |-> c, data |-> p]
          /\ UNCHANGED <<rooms, view>>
     ELSE IF ~HasAccess(UserOf(c), p)
     THEN /\ emitted' = Emit(NoEmit, connected, c, "error",
                             "Project not found or access denied")
          /\ last' = [ev |-> "join-denied", conn |-> c, data |-> p]
          /\ UNCHANGED <<rooms, view>>
     ELSE LET rms == IF c \in connected \/ lateJoin
                     THEN [rooms EXCEPT ![p] = @ \cup {c}] ELSE rooms
              em1 == Broadcast(NoEmit, Reachable(rms, connected, p), c,
                               "user-joined", UserOf(c))
              em2 == Emit(em1, connected, c, "active-users",
                          ActiveUsers(rms, connected, p, c))
          IN  /\ rooms' = rms
              /\ emitted' = em2
              /\ view' = ViewAfter(view, em2, p)
              /\ last' = [ev |-> "joined", conn |-> c, data |-> p]

\* socket.on('leave-project')
LeaveProject(c, p) ==
  LET rms == [rooms EXCEPT ![p] = @ \ {c}]
      em  == Broadcast(NoEmit, Reachable(rms, connected, p), c, "user-left", UserOf(c))
  IN  /\ c \in connected
      /\ rooms' = rms
      /\ emitted' = em
      /\ view' = [ViewAfter(view, em, p) EXCEPT ![c][p] = {}]
      /\ last' = [ev |-> "leave-project", conn |-> c, data |-> p]
      /\ UNCHANGED <<connected, docVars, pendingJoin, restVars, published, delivery>>

\* socket.on('file-change')
FileChange(c, p) ==
  /\ c \in connected
  /\ emitted' = Broadcast(NoEmit, Reachable(rooms, connected, p), c, "file-changed", UserOf(c))
  /\ last' = [ev |-> "file-change", conn |-> c, data |-> p]
  /\ UNCHANGED <<connected, docVars, roomVars, restVars, published, delivery>>

(***************************************************************************)
(* The socket closes.  socket.io first takes the socket out of all its     *)
(* rooms and out of io.sockets.sockets, then emits 'disconnect': the       *)
(* listener of index.ts runs, then the listeners yjs-connect registered.   *)
(***************************************************************************)

\* socket.rooms, as the project ids of the project:<id> rooms among them
SocketRooms(rms, c) == {p \in ProjectIds : c \in rms[p]}

\* index.ts lines 227-237: user-left to each room of socket.rooms
RECURSIVE NotifyRooms(_, _, _, _, _)
NotifyRooms(ps, rms, conn, c, st) ==
  IF ps = {} THEN st
  ELSE LET p == CHOOSE q \in ps : TRUE
           one == Broadcast(NoEmit, Reachable(rms, conn, p), c, "user-left", UserOf(c))
       IN  NotifyRooms(ps \ {p}, rms, conn, c,
                       [emitted |-> [x \in Conns |-> st.emitted[x] \o one[x]],
                        view |-> ViewAfter(st.view, one, p)])

Disconnect(c) ==
  LET conn == connected \ {c}
      rms  == [p \in ProjectIds |-> rooms[p] \ {c}]
      idx  == NotifyRooms(SocketRooms(rms, c), rms, conn, c,
                          [emitted |-> NoEmit, view |-> view])
      st   == RunCloseHandlers(handlers[c], c,
                               [entries |-> entries, timers |-> timers, emptyAge |-> emptyAge])
  IN  /\ c \in connected
      /\ Len(st.timers) <= MaxTimers
      /\ connected' = conn
      /\ rooms' = rms
      /\ emitted' = idx.emitted
      /\ view' = [idx.view EXCEPT ![c] = [p \in ProjectIds |-> {}]]
      /\ entries' = st.entries
      /\ timers' = st.timers
      /\ emptyAge' = st.emptyAge
      /\ published' = [published EXCEPT ![c] = "-"]
      /\ last' = [ev |-> "disconnect", conn |-> c, data |-> SocketRooms(rooms, c)]
      /\ UNCHANGED <<projectDocs, handlers, applied, pendingJoin, restVars, delivery>>

(***************************************************************************)
(* index.ts: WebRTC signaling and cursor positions.                        *)
(***************************************************************************)

\* the three signaling events (lines 202, 209, 216)
SignalKinds == {"webrtc-offer", "webrtc-answer", "webrtc-ice-candidate"}

\* data.offer / data.answer / data.candidate
SignalPayloads == {"sdp1", "sdp2"}

\* `project:${projectId}`
RoomName(p) == "project:" \o p

\* the sockets of the adapter room named `to`: a connected socket is the one
\* member of the room named by its id, a project room has the sockets that
\* joined it, any other name is the name of no room
RoomSockets(rms, conn, to) ==
  IF to \in Conns THEN {to} \cap conn
  ELSE UNION {Reachable(rms, conn, p) : p \in {q \in ProjectIds : RoomName(q) = to}}

\* Mutant of SignalData: `from` names the addressee.
SignalDataFromAddressee(c, to, payload) == [from |-> to, payload |-> payload]

\* { from: socket.id, offer: data.offer } and its two siblings
SignalData(c, to, payload) == [from |-> c, payload |-> payload]

\* socket.on('webrtc-offer' | 'webrtc-answer' | 'webrtc-ice-candidate'):
\* socket.to(data.to).emit(kind, ...), which leaves out the sender
Signal(c, kind, to, payload) ==
  /\ c \in connected
  /\ emitted' = Broadcast(NoEmit, RoomSockets(rooms, connected, to), c, kind,
                          SignalData(c, to, payload))
  /\ last' = [ev |-> kind, conn |-> c, data |-> [to |-> to, payload |-> payload]]
  /\ UNCHANGED <<connected, docVars, roomVars, restVars, published, delivery>>

\* socket.on('cursor-position'): cursor-updated to the project's room, the
\* sender left out
CursorPosition(c, p, f) ==
  /\ c \in connected
  /\ emitted' = Broadcast(NoEmit, Reachable(rooms, connected, p), c, "cursor-updated",
                          [filePath |-> f, user |-> UserOf(c)])
  /\ last' = [ev |-> "cursor-position", conn |-> c, data |-> [projectId |-> p, filePath |-> f]]
  /\ UNCHANGED <<connected, docVars, roomVars, restVars, published, delivery>>

(***************************************************************************)
(* routes/projects.ts and routes/terminal.ts: PUT /:projectId/files/:path. *)
(***************************************************************************)

\* the two routers that register the route
FileRoutes == {"projects", "terminal"}

\* the identities a request may carry: the users, and one ("u0") that the
\* auth middleware accepts but that has no User document and no project
Requesters == Users \cup {"u0"}

\* the filter of Project.findOne: the project, if the user owns it or is a
\* member of it
FindOwnOrJoined(u, p) ==
  /\ p \in ProjectIds
  /\ \/ ProjectDB[p].owner = u
     \/ \E m \in ProjectDB[p].members : m.user = u

\* Mutant of HasEditPermission: every member may edit.
HasEditPermissionAnyMember(u, p) ==
  \/ ProjectDB[p].owner = u
  \/ \E m \in ProjectDB[p].members : m.user = u

\* hasEditPermission = isOwner || member?.permission === 'edit'
HasEditPermission(u, p) ==
  \/ ProjectDB[p].owner = u
  \/ \E m \in ProjectDB[p].members : m.user = u /\ m.permission = "edit"

\* the path the route looks up in project.files
LookupPath(route, f) == IF route = "terminal" THEN Slash(f) ELSE f

\* The handler of the route.  A database call may throw (dbError): the
\* response is 500 and nothing is saved.  projects.ts answers 404 when the
\* user or the file is not found; terminal.ts creates a file that is missing.
PutFile(route, u, p, f, content, dbError) ==
  LET q == LookupPath(route, f)
      status ==
        IF dbError THEN 500
        ELSE IF route = "projects" /\ u \notin Users THEN 404
        ELSE IF ~FindOwnOrJoined(u, p) THEN 404
        ELSE IF ~HasEditPermission(u, p) THEN 403
        ELSE IF route = "projects" /\ files[p][q] = "-" THEN 404
        ELSE 200
  IN  /\ files' = IF status = 200 THEN [files EXCEPT ![p][q] = content] ELSE files
      /\ emitted' = NoEmit
      /\ last' = [ev |-> "put-file", conn |-> "-",
                  data |-> [route |-> route, user |-> u, projectId |-> p, status |-> status]]
      /\ UNCHANGED <<connected, docVars, roomVars, tokens, published, delivery,
                     termVars, inviteVars>>

(***************************************************************************)
(* index.ts: the authentication middleware of the handshake.               *)
(***************************************************************************)

\* socket.handshake.auth.token: absent, one jwt.verify rejects, one that
\* verifies but names no User document, one that verifies and names the
\* socket's user
TokenKinds == {"none", "invalid", "unknown", "valid"}

\* Mutant of HandshakeError: the result of User.findById is not tested.
HandshakeErrorNoUserTest(tok, secret, dbError) ==
  IF tok = "none" THEN "No token provided"
  ELSE IF ~secret THEN "JWT secret not configured"
  ELSE IF tok = "invalid" \/ dbError THEN "Authentication failed"
  ELSE "ok"

\* io.use(...) (lines 72-96): the error handed to next(), "ok" for next()
\* without error.  secret: process.env.JWT_SECRET is set; dbError:
\* User.findById throws.
HandshakeError(tok, secret, dbError) ==
  IF tok = "none" THEN "No token provided"
  ELSE IF ~secret THEN "JWT secret not configured"
  ELSE IF tok = "invalid" \/ dbError THEN "Authentication failed"
  ELSE IF tok = "unknown" THEN "User not found"
  ELSE "ok"

\* A socket's handshake.  Only after next() without error does socket.io
\* emit 'connection', where the listeners of setupCollaboration and of
\* index.ts are registered on the socket; a refused socket is closed.
Handshake(c, tok, secret, dbError) ==
  LET err == HandshakeError(tok, secret, dbError)
  IN  /\ tokens[c] = "-"
      /\ tokens' = [tokens EXCEPT ![c] = tok]
      /\ connected' = IF err = "ok" THEN connected \cup {c} ELSE connected
      /\ emitted' = NoEmit
      /\ last' = [ev |-> "handshake", conn |-> c, data |-> err]
      /\ UNCHANGED <<docVars, roomVars, files, published, delivery, termVars, inviteVars>>

(***************************************************************************)
(* routes/terminal.ts: /execute, /stop and /status.                        *)
(***************************************************************************)

\* the number of commands the clients start
MaxRuns == 3

\* childProcess.kill('SIGTERM'): the signal is sent, and `killed` set, only
\* while the ChildProcess has a handle (it was spawned and has not exited)
Kill(ch, n) ==
  IF ch[n].failed \/ ch[n].closed THEN ch
  ELSE [ch EXCEPT ![n].killed = TRUE]

\* projectProcesses.delete(projectId)
DeleteProcess(procs, p) == [procs EXCEPT ![p] = 0]

\* The server process ends on an exception nothing catches: every socket
\* closes and the registry, the rooms, the timers and projectProcesses are
\* gone; the child processes live on without their listeners.
ServerEnds(ch) ==
  /\ connected' = {}
  /\ projectDocs' = [k \in DocKeys |-> 0]
  /\ entries' = <<>>
  /\ applied' = <<>>
  /\ emptyAge' = <<>>
  /\ handlers' = [x \in Conns |-> <<>>]
  /\ timers' = <<>>
  /\ rooms' = [p \in ProjectIds |-> {}]
  /\ pendingJoin' = {}
  /\ view' = [x \in Conns |-> [p \in ProjectIds |-> {}]]
  /\ published' = [x \in Conns |-> "-"]
  /\ projectProcesses' = [p \in ProjectIds |-> 0]
  /\ children' = Orphaned(ch)

\* res.json(...) / res.status(code).json(...) of the /execute handler that
\* spawned child n, called from its 'close' or 'error' listener or from its
\* timeout callback, after the listener or callback has changed the child
\* processes to ch and projectProcesses to procs.  The first call answers the
\* request.  A later call on the same res throws ERR_HTTP_HEADERS_SENT; no
\* try/catch is around the listeners and the callback, so the server ends.
Answer(ev, n, code, ch, procs) ==
  IF ch[n].answered = 0
  THEN /\ children' = [ch EXCEPT ![n].answered = code]
       /\ projectProcesses' = procs
       /\ last' = [ev |-> ev, conn |-> "-", data |-> [child |-> n, status |-> code]]
       /\ UNCHANGED <<connected, docVars, roomVars, published>>
  ELSE /\ ServerEnds(ch)
       /\ last' = [ev |-> "headers-sent", conn |-> "-", data |-> [child |-> n, status |-> code]]

\* POST /execute by user u for project p; `fails` says that spawn cannot
\* start the command (e.g. the cwd of the request does not exist).  A process
\* stored for the project is sent SIGTERM and its entry deleted (lines 33-38);
\* the new ChildProcess is stored (line 54) with its 'close' and 'error'
\* listeners and its 30 s timeout.
Execute(u, p, fails) ==
  /\ Len(children) < MaxRuns
  /\ IF ~FindOwnOrJoined(u, p)
     THEN /\ last' = [ev |-> "execute", conn |-> "-", data |-> [child |-> 0, status |-> 404]]
          /\ UNCHANGED termVars
     ELSE LET existingProcess == projectProcesses[p]
              ch1 == IF existingProcess # 0 THEN Kill(children, existingProcess) ELSE children
              childProcess == Len(children) + 1
          IN  /\ children' =
                   Append(ch1, [project |-> p, failed |-> fails, killed |-> FALSE,
                                closed |-> FALSE, errored |-> FALSE, timer |-> TRUE,
                                attached |-> TRUE, answered |-> 0, dropped |-> FALSE])
              /\ projectProcesses' = [projectProcesses EXCEPT ![p] = childProcess]
              /\ last' = [ev |-> "execute", conn |-> "-",
                          data |-> [child |-> childProcess, status |-> 0]]
  /\ emitted' = NoEmit
  /\ UNCHANGED <<connected, docVars, roomVars, tokens, files, inviteVars, published, delivery>>

\* childProcess.on('close') of child n (lines 70-85): the process has exited,
\* by itself or after a signal; after a spawn failure 'close' follows 'error'.
ProcClose(n) ==
  /\ n \in 1 .. Len(children)
  /\ children[n].attached
  /\ ~children[n].closed
  /\ children[n].failed => children[n].errored
  /\ Answer("close", n, 200, [children EXCEPT ![n].closed = TRUE],
            DeleteProcess(projectProcesses, children[n].project))
  /\ emitted' = NoEmit
  /\ UNCHANGED <<tokens, files, inviteVars, delivery>>

\* childProcess.on('error') of child n (lines 88-95): spawn failed
ProcError(n) ==
  /\ n \in 1 .. Len(children)
  /\ children[n].attached
  /\ children[n].failed
  /\ ~children[n].errored
  /\ Answer("error", n, 500, [children EXCEPT ![n].errored = TRUE],
            DeleteProcess(projectProcesses, children[n].project))
  /\ emitted' = NoEmit
  /\ UNCHANGED <<tokens, files, inviteVars, delivery>>

\* The setTimeout callback of the oldest /execute request whose 30 s are not
\* over (lines 98-108).  It tests only childProcess.killed, which is false for
\* a process that exited by itself.
Timeout ==
  LET pending == {i \in 1 .. Len(children) : children[i].timer /\ children[i].attached}
  IN  /\ pending # {}
      /\ LET n == CHOOSE i \in pending : \A j \in pending : i <= j
             ch0 == [children EXCEPT ![n].timer = FALSE]
         IN  IF ch0[n].killed
             THEN /\ children' = ch0
                  /\ last' = [ev |-> "timeout", conn |-> "-",
                              data |-> [child |-> n, status |-> 0]]
                  /\ UNCHANGED <<connected, docVars, roomVars, published, projectProcesses>>
             ELSE Answer("timeout", n, 408, Kill(ch0, n),
                         DeleteProcess(projectProcesses, ch0[n].project))
      /\ emitted' = NoEmit
      /\ UNCHANGED <<tokens, files, inviteVars, delivery>>

\* POST /stop by user u for project p (lines 117-149)
Stop(u, p) ==
  /\ IF ~FindOwnOrJoined(u, p)
     THEN /\ last' = [ev |-> "stop", conn |-> "-", data |-> [child |-> 0, status |-> 404]]
          /\ UNCHANGED termVars
     ELSE LET childProcess == projectProcesses[p]
          IN  /\ children' = IF childProcess # 0 THEN Kill(children, childProcess) ELSE children
              /\ projectProcesses' = DeleteProcess(projectProcesses, p)
              /\ last' = [ev |-> "stop", conn |-> "-",
                          data |-> [child |-> childProcess, status |-> 200]]
  /\ emitted' = NoEmit
  /\ UNCHANGED <<connected, docVars, roomVars, tokens, files, inviteVars, published, delivery>>

\* GET /status by user u for project p (lines 152-183): isRunning is
\* projectProcesses.has(projectId), reported here as child # 0
Status(u, p) ==
  /\ last' = [ev |-> "status", conn |-> "-",
              data |-> IF FindOwnOrJoined(u, p)
                       THEN [child |-> projectProcesses[p], status |-> 200]
                       ELSE [child |-> 0, status |-> 404]]
  /\ emitted' = NoEmit
  /\ UNCHANGED <<connected, docVars, roomVars, restVars, published, delivery>>

(***************************************************************************)
(* routes/projects.ts: POST /:projectId/invite and                         *)
(* POST /invites/:inviteId/:action.                                        *)
(***************************************************************************)

\* the number of invites the owners send
MaxInvites == 2

\* req.user.email: the email of the account of user u
EmailOf(u) ==
  CASE u = "u1" -> "e1" [] u = "u2" -> "e2" [] u = "u3" -> "e3" [] OTHER -> "e0"

\* the :action values of a request: the two the route knows and another one
InviteActions == {"accept", "decline", "remove"}

\* POST /:projectId/invite by user u with body {email, permission}
\* (permission "-": none given).  The project is looked up by its owner
\* (lines 166-169); the 'already a member' test compares the members with the
\* requesting user (lines 176-178), the 'invite exists' test looks for a
\* pending invite of the email (lines 185-187).
Invite(u, p, email, permission, dbError) ==
  LET status ==
        IF dbError THEN 500
        ELSE IF u \notin Users THEN 404
        ELSE IF p \notin ProjectIds \/ ProjectDB[p].owner # u THEN 404
        ELSE IF \E i \in 1 .. Len(members[p]) : members[p][i].user = u THEN 400
        ELSE IF \E i \in 1 .. Len(invites[p]) :
                  invites[p][i].email = email /\ invites[p][i].status = "pending" THEN 400
        ELSE 200
  IN  /\ inviteIds < MaxInvites
      /\ IF status = 200
         THEN /\ invites' = [invites EXCEPT ![p] =
                   Append(@, [id |-> inviteIds + 1, email |-> email,
                              permission |-> IF permission = "-" THEN "view" ELSE permission,
                              status |-> "pending"])]
              /\ inviteIds' = inviteIds + 1
         ELSE UNCHANGED <<invites, inviteIds>>
      /\ emitted' = NoEmit
      /\ last' = [ev |-> "invite", conn |-> "-",
                  data |-> [user |-> u, projectId |-> p, email |-> email, status |-> status]]
      /\ UNCHANGED <<connected, docVars, roomVars, tokens, files, termVars, members,
                     published, delivery>>

\* The filter of Project.findOne in the accept/decline route (lines 229-233):
\* three conditions on the invites array, each met by some element of it, not
\* necessarily by the same one.
FindByInvite(inv, id, email) ==
  {p \in ProjectIds :
     /\ \E i \in 1 .. Len(inv[p]) : inv[p][i].id = id
     /\ \E i \in 1 .. Len(inv[p]) : inv[p][i].email = email
     /\ \E i \in 1 .. Len(inv[p]) : inv[p][i].status = "pending"}

\* POST /invites/:inviteId/:action by user u.  The invite is the element with
\* the given _id (line 239); on accept the user is pushed to the members with
\* the invite's permission (lines 244-251); the invite is removed (line 257).
HandleInvite(u, inviteId, action, dbError) ==
  LET found == FindByInvite(invites, inviteId, EmailOf(u))
      status ==
        IF dbError THEN 500
        ELSE IF u \notin Users THEN 404
        ELSE IF action \notin {"accept", "decline"} THEN 400
        ELSE IF found = {} THEN 404
        ELSE 200
  IN  /\ IF status = 200
         THEN LET p == CHOOSE q \in found : TRUE
                  k == CHOOSE i \in 1 .. Len(invites[p]) : invites[p][i].id = inviteId
                  invite == invites[p][k]
              IN  /\ members' =
                       IF action = "accept"
                       THEN [members EXCEPT ![p] =
                               Append(@, [user |-> u, permission |-> invite.permission])]
                       ELSE members
                  /\ invites' = [invites EXCEPT ![p] =
                                   SelectSeq(@, LAMBDA inv : inv.id # inviteId)]
         ELSE UNCHANGED <<members, invites>>
      /\ emitted' = NoEmit
      /\ last' = [ev |-> "invite-action", conn |-> "-",
                  data |-> [user |-> u, inviteId |-> inviteId, action |-> action,
                            status |-> status]]
      /\ UNCHANGED <<connected, docVars, roomVars, tokens, files, termVars, inviteIds,
                     published, delivery>>

(***************************************************************************)
(* Specifications: each is Init and a choice of handlers and inputs.       *)
(***************************************************************************)
\* the projects whose files are opened under SpecDoc and SpecEvict
DocProjects == {"p1"}

\* SpecDoc: attach, update, detach, disconnect, while no clean-up callback
\* comes due (the first five minutes after a detach)
NextDoc ==
  \/ \E c \in Conns, p \in DocProjects, f \in FilePaths : YjsConnect(c, p, f)
  \/ \E c \in Conns, u \in ClientUpdates : YjsUpdate(c, u)
  \/ \E c \in Conns : YjsDisconnect(c)
  \/ \E c \in Conns : Disconnect(c)

SpecDoc == Init /\ [][NextDoc]_vars

\* the sockets of SpecMerge
MergeConns == {"c1", "c2"}

\* SpecMerge: the updates reach a document in every order, and again, from
\* the sockets that opened it
NextMerge ==
  \/ \E c \in MergeConns, p \in DocProjects, f \in FilePaths : YjsConnect(c, p, f)
  \/ \E c \in MergeConns, u \in ClientUpdates : YjsUpdate(c, u)

SpecMerge == Init /\ [][NextMerge]_vars

\* the sockets and the updates of SpecEvict
EvictConns == {"c1", "c2"}

EvictUpdates == {[structs |-> {<<1, 0>>}, ds |-> {}]}

\* SpecEvict: the life of the registry entries, with time
NextEvict ==
  \/ \E c \in EvictConns, p \in DocProjects, f \in FilePaths : YjsConnect(c, p, f)
  \/ \E c \in EvictConns, u \in EvictUpdates : YjsUpdate(c, u)
  \/ \E c \in EvictConns : YjsDisconnect(c)
  \/ \E c \in EvictConns : Disconnect(c)
  \/ TimerFire
  \/ Tick

SpecEvict == Init /\ [][NextEvict]_vars

NextRoom ==
  \/ \E c \in Conns, p \in ProjectIds : JoinStart(c, p)
  \/ \E c \in Conns, p \in ProjectIds, dbError \in BOOLEAN, lateJoin \in BOOLEAN :
       JoinFinish(c, p, dbError, lateJoin)
  \/ \E c \in Conns, p \in ProjectIds : LeaveProject(c, p)
  \/ \E c \in Conns, p \in ProjectIds : FileChange(c, p)
  \/ \E c \in Conns : Disconnect(c)

SpecRoom == Init /\ [][NextRoom]_vars

\* the sockets of SpecJoin, and the project ids a client may name: "p0" is
\* the id of no project
JoinConns == {"c1", "c3"}

NamedProjects == ProjectIds \cup {"p0"}

\* SpecJoin: join-project for every project id, by an owner and member (c1)
\* and by a user who is neither (c3)
NextJoin ==
  \/ \E c \in JoinConns, p \in NamedProjects : JoinStart(c, p)
  \/ \E c \in JoinConns, p \in NamedProjects, dbError \in BOOLEAN, lateJoin \in BOOLEAN :
       JoinFinish(c, p, dbError, lateJoin)
  \/ \E c \in JoinConns, p \in ProjectIds : LeaveProject(c, p)
  \/ \E c \in JoinConns : Disconnect(c)

SpecJoin == Init /\ [][NextJoin]_vars

\* the project of SpecSignal, and the values of data.to: the socket ids and
\* the name of the project's room
SignalProjects == {"p2"}

SignalTargets == Conns \cup {RoomName(p) : p \in SignalProjects}

\* SpecSignal: signaling between sockets that join a room and disconnect
NextSignal ==
  \/ \E c \in Conns, p \in SignalProjects : JoinStart(c, p)
  \/ \E c \in Conns, p \in SignalProjects, dbError \in BOOLEAN, lateJoin \in BOOLEAN :
       JoinFinish(c, p, dbError, lateJoin)
  \/ \E c \in Conns, kind \in SignalKinds, to \in SignalTargets, payload \in SignalPayloads :
       Signal(c, kind, to, payload)
  \/ \E c \in Conns : Disconnect(c)

SpecSignal == Init /\ [][NextSignal]_vars

\* the sockets of SpecShare
ShareConns == {"c1", "c2"}

\* SpecShare: two documents (p1:a and p2:a) opened by the same sockets, with
\* document updates, well-formed and malformed, and detach
NextShare ==
  \/ \E c \in ShareConns, p \in ProjectIds, f \in FilePaths : YjsConnect(c, p, f)
  \/ \E c \in ShareConns, u \in EvictUpdates : YjsUpdate(c, u)
  \/ \E c \in ShareConns : YjsUpdateMalformed(c)
  \/ \E c \in ShareConns : YjsDisconnect(c)

SpecShare == Init /\ [][NextShare]_vars

\* the sockets, the document and the room of SpecAware
AwareConns == {"c1", "c2"}

AwareProjects == {"p2"}

\* SpecAware: awareness and cursors among sockets that open the document
\* p2:a and join the room of p2; the access query of join-project answers
NextAware ==
  \/ \E c \in AwareConns, p \in AwareProjects, f \in FilePaths : YjsConnect(c, p, f)
  \/ \E c \in AwareConns, s \in AwarenessStates : YjsAwareness(c, s)
  \/ \E c \in AwareConns : YjsDisconnect(c)
  \/ \E c \in AwareConns, p \in AwareProjects : JoinStart(c, p)
  \/ \E c \in AwareConns, p \in AwareProjects : JoinFinish(c, p, FALSE, FALSE)
  \/ \E c \in AwareConns, p \in AwareProjects, f \in FilePaths : CursorPosition(c, p, f)
  \/ \E c \in AwareConns : Disconnect(c)

SpecAware == Init /\ [][NextAware]_vars

\* SpecFiles: the PUT route of both routers, for every requester, project id
\* and path
NextFiles ==
  \E route \in FileRoutes, u \in Requesters, p \in NamedProjects, f \in ReqPaths,
     content \in Contents, dbError \in BOOLEAN :
    PutFile(route, u, p, f, content, dbError)

SpecFiles == Init /\ [][NextFiles]_vars

\* the project whose room and document are used under SpecAuth, and the
\* awareness state published
AuthProjects == {"p2"}

AuthStates == {"s1"}

\* SpecAuth: sockets try the handshake with every kind of token; the events
\* are sent on any socket the server lets through
NextAuth ==
  \/ \E c \in Conns, tok \in TokenKinds, secret \in BOOLEAN, dbError \in BOOLEAN :
       Handshake(c, tok, secret, dbError)
  \/ \E c \in Conns, p \in AuthProjects : JoinStart(c, p)
  \/ \E c \in Conns, p \in AuthProjects, dbError \in BOOLEAN : JoinFinish(c, p, dbError, FALSE)
  \/ \E c \in Conns, p \in AuthProjects, f \in FilePaths : YjsConnect(c, p, f)
  \/ \E c \in Conns, s \in AuthStates : YjsAwareness(c, s)
  \/ \E c \in Conns : Disconnect(c)

SpecAuth == InitAuth /\ [][NextAuth]_vars

\* the sockets of SpecOrder
OrderConns == {"c1", "c2"}

\* the updates of SpecOrder: the first item of each Y.js client
OrderUpdates == {[structs |-> {<<k, 0>>}, ds |-> {}] : k \in YClients}

\* SpecOrder: the sockets open one document and send updates, while the
\* delivery observer records the packets each socket is sent
NextOrder ==
  \/ \E c \in OrderConns, p \in DocProjects, f \in FilePaths : YjsConnect(c, p, f)
  \/ \E c \in OrderConns, u \in OrderUpdates : YjsUpdate(c, u)

SpecOrder == InitOrder /\ [][NextOrder]_vars

\* the sockets and the awareness state of SpecLeave
LeaveConns == {"c1", "c2"}

LeaveStates == {"s1"}

\* SpecLeave: sockets open the documents p1:a and p2:a, send updates and
\* awareness, detach and disconnect
NextLeave ==
  \/ \E c \in LeaveConns, p \in ProjectIds, f \in FilePaths : YjsConnect(c, p, f)
  \/ \E c \in LeaveConns, u \in EvictUpdates : YjsUpdate(c, u)
  \/ \E c \in LeaveConns, s \in LeaveStates : YjsAwareness(c, s)
  \/ \E c \in LeaveConns : YjsDisconnect(c)
  \/ \E c \in LeaveConns : Disconnect(c)

SpecLeave == Init /\ [][NextLeave]_vars

\* SpecGone: sockets open the documents p1:a and p2:a, send updates and
\* awareness, and disconnect
NextGone ==
  \/ \E c \in LeaveConns, p \in ProjectIds, f \in FilePaths : YjsConnect(c, p, f)
  \/ \E c \in LeaveConns, u \in EvictUpdates : YjsUpdate(c, u)
  \/ \E c \in LeaveConns, s \in LeaveStates : YjsAwareness(c, s)
  \/ \E c \in LeaveConns : Disconnect(c)

SpecGone == Init /\ [][NextGone]_vars


\* the callers and the project of the terminal requests under SpecTerminal:
\* u1 owns p1, u3 has no access to it
TermUsers == {"u1", "u3"}

TermProjects == {"p1"}

\* SpecTerminal: commands are started, stopped and queried on one project,
\* and their processes exit, fail to start, or reach their timeout.
NextTerminal ==
  \/ \E u \in TermUsers, p \in TermProjects, fails \in BOOLEAN : Execute(u, p, fails)
  \/ \E n \in 1 .. MaxRuns : ProcClose(n)
  \/ \E n \in 1 .. MaxRuns : ProcError(n)
  \/ Timeout
  \/ \E u \in TermUsers, p \in TermProjects : Stop(u, p)
  \/ \E u \in TermUsers, p \in TermProjects : Status(u, p)

SpecTerminal == Init /\ [][NextTerminal]_vars

\* the project, the invited emails and the permissions of the requests under
\* SpecInvite: p1 is owned by u1 and has u2 as a member
InviteProjects == {"p1", "p0"}

InviteEmails == {"e2", "e3"}

InvitePermissions == {"-", "edit"}

\* SpecInvite: the users send invites and accept or decline invites by id.
NextInvite ==
  \/ \E u \in Requesters, p \in InviteProjects, email \in InviteEmails,
        permission \in InvitePermissions, dbError \in BOOLEAN :
       Invite(u, p, email, permission, dbError)
  \/ \E u \in Requesters, inviteId \in 1 .. MaxInvites, action \in InviteActions,
        dbError \in BOOLEAN :
       HandleInvite(u, inviteId, action, dbError)

SpecInvite == Init /\ [][NextInvite]_vars

(***************************************************************************)
(* Properties.                                                             *)
(***************************************************************************)

\* the ProjectDocs socket c is attached to
Sessions(c) == {e \in 1 .. Len(entries) : c \in entries[e].connections}

\* how many events named ev the last handler emitted to socket c
Count(c, ev) == Cardinality({i \in 1 .. Len(emitted[c]) : emitted[c][i].ev = ev})

\* C1: a viewer-role connection that sends a document update (yjs-update on a
\* document it is attached to, or file-change for the project) never alters
\* the server's documents, receives permission-denied, and no update is
\* broadcast to any other connection.
C1_ViewerUpdateDenied ==
  [][\A c \in Conns :
       ( /\ last'.conn = c
         /\ \/ /\ last'.ev = "yjs-update"
               /\ \E e \in Sessions(c) : IsViewer(c, ProjectOfKey(entries[e].key))
            \/ /\ last'.ev = "file-change"
               /\ IsViewer(c, last'.data) )
       => /\ \A e \in 1 .. Len(entries) : entries'[e].doc = entries[e].doc
          /\ \E i \in 1 .. Len(emitted'[c]) : emitted'[c][i].ev = "permission-denied"
          /\ \A o \in Conns \ {c} : emitted'[o] = <<>>]_vars

\* C2: the yjs-sync snapshot sent on yjs-connect, applied to an empty
\* replica, gives the content of the key's server document at that instant.
C2_SnapshotHoldsAllUpdates ==
  last.ev = "yjs-connect" =>
    LET c == last.conn
        e == projectDocs[last.data.key]
    IN  \E i \in 1 .. Len(emitted[c]) :
          /\ emitted[c][i].ev = "yjs-sync"
          /\ Content(ApplyUpdate(EmptyDoc, emitted[c][i].data)) = Content(entries[e].doc)

\* C3: the content of a server document depends only on the set of updates
\* that reached it through yjs-update, not on the order they arrived in: it
\* is the content of the set merged into an empty document at once.
C3_OrderIndependent ==
  \A e \in 1 .. Len(entries) :
    Content(entries[e].doc) = Content(ApplyUpdate(EmptyDoc, MergeUpdates(applied[e])))

\* three updates have reached a document, one of them before its predecessor
C3_Witness ==
  \E e \in 1 .. Len(entries) :
    /\ Cardinality(applied[e]) >= 3
    /\ entries[e].doc.pend # {}
    /\ Content(entries[e].doc) # {}

\* C4: a yjs-update that carries an update the server document has already
\* merged does not alter the document's content.
C4_ReapplyIsNoop ==
  [][\A e \in 1 .. Len(entries) :
       ( /\ last'.ev = "yjs-update"
         /\ \E i \in 1 .. Len(handlers[last'.conn]) : handlers[last'.conn][i] = e
         /\ applied'[e] = applied[e] )
       => Content(entries'[e].doc) = Content(entries[e].doc)]_vars

\* an update was sent again to a document that holds content
C4_Witness ==
  /\ last.ev = "yjs-update"
  /\ \E e \in last.data : Content(entries[e].doc) # {} /\ entries[e].doc.del # {}

\* C5: an update sent by an attached connection is emitted exactly once to
\* every other member of its session and never to the sender.
C5_BroadcastExactlyOnce ==
  last.ev = "yjs-update" =>
    \A e \in Sessions(last.conn) :
      /\ \A o \in entries[e].connections \ {last.conn} : Count(o, "yjs-update") = 1
      /\ Count(last.conn, "yjs-update") = 0

\* C6: an entry leaves projectDocs only when its member set has been empty
\* for the whole grace period since the detach that last emptied it.
C6_EvictOnlyAfterGrace ==
  (last.ev = "timer" /\ last.data.removed # 0) =>
    /\ entries[last.data.removed].connections = {}
    /\ emptyAge[last.data.removed] >= GraceMinutes

\* C7: an entry whose member set stays empty is out of projectDocs once the
\* grace period is over, and an attach before that finds the entry, with its
\* Y.Doc: yjs-connect creates a new ProjectDoc for a key only when every
\* earlier one of the key was empty for the whole grace period.
C7_EvictedAfterGraceKeptBefore ==
  /\ \A k \in DocKeys :
       (projectDocs[k] # 0 /\ entries[projectDocs[k]].connections = {}) =>
         \E i \in 1 .. Len(timers) :
           /\ timers[i].ent = projectDocs[k]
           /\ timers[i].rem + emptyAge[projectDocs[k]] <= GraceMinutes
  /\ (last.ev = "yjs-connect" /\ last.data.fresh) =>
       \A e \in 1 .. Len(entries) :
         (e # projectDocs[last.data.key] /\ entries[e].key = last.data.key) =>
           /\ entries[e].connections = {}
           /\ emptyAge[e] >= GraceMinutes

\* C8: the roster a connection builds from active-users, user-joined and
\* user-left is the set of participants connected and in the room.
C8_RosterConverges ==
  \A p \in ProjectIds :
    \A c \in Reachable(rooms, connected, p) :
      view[c][p] = {UserOf(x) : x \in Reachable(rooms, connected, p)}

\* C9: when a connection that is in project rooms disconnects, every
\* remaining member of each of those rooms receives user-left for it.
C9_DisconnectNotifiesRooms ==
  last.ev = "disconnect" =>
    \A p \in last.data :
      \A m \in Reachable(rooms, connected, p) :
        \E i \in 1 .. Len(emitted[m]) :
          emitted[m][i].ev = "user-left" /\ emitted[m][i].data = UserOf(last.conn)

\* C10: the active-users roster returned by join-project holds exactly the
\* participants whose connections are in the room at that instant, the
\* joiner among them, whatever other joins are suspended at their access
\* check.
C10_RosterCorrectAtJoin ==
  (last.ev = "joined" /\ last.conn \in connected) =>
    \E i \in 1 .. Len(emitted[last.conn]) :
      /\ emitted[last.conn][i].ev = "active-users"
      /\ \A x \in Conns :
           UserOf(x) \in emitted[last.conn][i].data
             <=> (x \in connected /\ x \in rooms[last.data])
      /\ UserOf(last.conn) \in emitted[last.conn][i].data

\* a join completes into a room that has another member, while a third
\* connection's join of the same project is suspended
C10_Witness ==
  /\ last.ev = "joined"
  /\ last.conn \in connected
  /\ Cardinality(Reachable(rooms, connected, last.data)) >= 2
  /\ \E x \in Conns \ {last.conn} : <<x, last.data>> \in pendingJoin

\* C11: a join-project whose access query completes is denied when the user
\* is neither owner nor member of a project that is not public, or when the
\* project does not exist: the rooms are unchanged, no other socket receives
\* anything, the caller receives the error and no roster.  The owner, a
\* member, and any user of a public project are admitted: the socket is in
\* the room and receives the roster.
C11_JoinGatedByAccess ==
  [][\A c \in Conns, p \in NamedProjects :
       (last'.ev \in {"joined", "join-denied"} /\ last'.conn = c /\ last'.data = p)
       => IF p \notin ProjectIds \/ RoleOf(UserOf(c), p) = "none"
          THEN /\ last'.ev = "join-denied"
               /\ rooms' = rooms
               /\ \A o \in Conns \ {c} : emitted'[o] = <<>>
               /\ \A i \in 1 .. Len(emitted'[c]) : emitted'[c][i].ev = "error"
               /\ c \in connected => Len(emitted'[c]) = 1
          ELSE /\ last'.ev = "joined"
               /\ c \in connected =>
                    /\ c \in rooms'[p]
                    /\ \E i \in 1 .. Len(emitted'[c]) : emitted'[c][i].ev = "active-users"]_vars

\* a user without access was denied a room that has a member
C11_Witness ==
  /\ last.ev = "join-denied"
  /\ last.conn \in connected
  /\ last.data \in ProjectIds
  /\ Reachable(rooms, connected, last.data) # {}

\* the one packet a signaling event is to produce
SignalPacket == [ev |-> last.ev, data |-> [from |-> last.conn, payload |-> last.data.payload]]

\* C12 as stated: a signaling event addressed to the id of a connected socket
\* T reaches T, and T alone, with the payload unchanged and from = the
\* sender's id; addressed to the id of a socket that is not connected it
\* reaches nobody; no other handler emits a signaling packet.
C12_SignalReachesAddressee ==
  /\ (last.ev \in SignalKinds /\ last.data.to \in Conns) =>
       IF last.data.to \in connected
       THEN /\ emitted[last.data.to] = <<SignalPacket>>
            /\ \A o \in Conns \ {last.data.to} : emitted[o] = <<>>
       ELSE \A o \in Conns : emitted[o] = <<>>
  /\ last.ev \notin SignalKinds =>
       \A o \in Conns : \A i \in 1 .. Len(emitted[o]) : emitted[o][i].ev \notin SignalKinds

\* C12, amended: the same for a connected socket T other than the sender; a
\* signaling event a socket addresses to its own id reaches nobody.
C12_SignalReachesOtherAddressee ==
  /\ (last.ev \in SignalKinds /\ last.data.to \in Conns) =>
       IF last.data.to \in connected \ {last.conn}
       THEN /\ emitted[last.data.to] = <<SignalPacket>>
            /\ \A o \in Conns \ {last.data.to} : emitted[o] = <<>>
       ELSE \A o \in Conns : emitted[o] = <<>>
  /\ last.ev \notin SignalKinds =>
       \A o \in Conns : \A i \in 1 .. Len(emitted[o]) : emitted[o][i].ev \notin SignalKinds

\* an answer was relayed between two connected sockets while the third is gone
C12_Witness ==
  /\ last.ev = "webrtc-answer"
  /\ last.data.to \in connected \ {last.conn}
  /\ emitted[last.data.to] # <<>>
  /\ connected # Conns

\* C13: a malformed update is rejected: no server document changes, nothing
\* is broadcast, the sender receives an error event, and the sender's session
\* goes on (the socket stays connected and attached, its listeners stay).
C13_MalformedUpdateRejected ==
  [][last'.ev = "yjs-update-malformed" =>
       LET c == last'.conn
       IN  /\ Len(entries') = Len(entries)
           /\ \A e \in 1 .. Len(entries) : entries'[e] = entries[e]
           /\ \A o \in Conns \ {c} : emitted'[o] = <<>>
           /\ \E i \in 1 .. Len(emitted'[c]) : emitted'[c][i].ev = "error"
           /\ c \in connected'
           /\ handlers'[c] = handlers[c]]_vars

\* C14: a yjs-update event changes the document of one key at most, and the
\* sockets it is broadcast to are all members of one key's session, also when
\* the sender has issued yjs-connect for several keys.
C14_UpdateStaysInItsDocument ==
  [][last'.ev = "yjs-update" =>
       /\ Cardinality({entries[e].key : e \in {x \in 1 .. Len(entries) :
                                                 entries'[x].doc # entries[x].doc}}) <= 1
       /\ \E k \in DocKeys :
            \A o \in Conns :
              emitted'[o] # <<>> =>
                \E e \in 1 .. Len(entries) : entries[e].key = k /\ o \in entries[e].connections]_vars

\* the sockets the last handler emitted ev to
Recipients(ev) == {o \in Conns : Count(o, ev) > 0}

\* C15: an awareness update published by a connection attached to a
\* document's session is relayed to the other connections attached to that
\* session, and to no one else: the awareness state of yjs-awareness reaches
\* exactly the other members of a session of the publisher, the cursor of
\* cursor-position for a file reaches exactly the other members of the
\* file's session.
C15_AwarenessStaysInSession ==
  /\ (last.ev = "yjs-awareness" /\ Sessions(last.conn) # {}) =>
       \E e \in Sessions(last.conn) :
         Recipients("yjs-awareness") = entries[e].connections \ {last.conn}
  /\ last.ev = "cursor-position" =>
       LET e == projectDocs[DocKey(last.data.projectId, last.data.filePath)]
       IN  (e # 0 /\ e \in Sessions(last.conn)) =>
             Recipients("cursor-updated") = entries[e].connections \ {last.conn}

\* C16: the connection that attaches receives, with the attach, the
\* awareness state last published by each connection present in the session.
C16_LateJoinerGetsAwareness ==
  last.ev = "yjs-connect" =>
    \A m \in entries[projectDocs[last.data.key]].connections \ {last.conn} :
      published[m] # "-" =>
        \E i \in 1 .. Len(emitted[last.conn]) :
          /\ emitted[last.conn][i].ev = "yjs-awareness"
          /\ emitted[last.conn][i].data = published[m]

\* C17: when a connection that has published awareness detaches or
\* disconnects, every connection that remains in its sessions receives an
\* awareness event that clears it.
C17_DetachClearsAwareness ==
  [][(last'.ev \in {"yjs-disconnect", "disconnect"} /\ published[last'.conn] # "-") =>
       \A e \in Sessions(last'.conn) :
         \A m \in (entries'[e].connections \cap connected') :
           \E i \in 1 .. Len(emitted'[m]) : emitted'[m][i].ev = "yjs-awareness"]_vars

\* C18: a PUT of a file by a member whose permission is 'view' is answered
\* 403, one by a user who is neither owner nor member of the project (or for
\* a project that does not exist) is answered 404, unless the database
\* fails, and neither changes a file; a request that changes a file comes
\* from the owner or from a member whose permission is 'edit'.
C18_PutFileGatedByEdit ==
  [][last'.ev = "put-file" =>
       LET u == last'.data.user
           p == last'.data.projectId
           answered == last'.data.status # 500
           owner == p \in ProjectIds /\ ProjectDB[p].owner = u
           role(perm) == /\ p \in ProjectIds
                         /\ ~owner
                         /\ [user |-> u, permission |-> perm] \in ProjectDB[p].members
       IN  /\ role("view") => (files' = files /\ (answered => last'.data.status = 403))
           /\ ~(owner \/ role("view") \/ role("edit")) =>
                (files' = files /\ (answered => last'.data.status = 404))
           /\ files' # files => (owner \/ role("edit"))]_vars

\* a 'view' member was answered 403 for a project whose file the owner had
\* changed
C18_Witness ==
  /\ last.ev = "put-file"
  /\ last.data.status = 403
  /\ files[last.data.projectId] # InitFiles

\* C19: every connected socket passed the handshake with a token that
\* verifies and names an existing user; every event a handler processed came
\* from such a socket; a socket whose handshake was refused, or has not been
\* made, has no listener, is in no room and in no document session, and has
\* no join in progress.
C19_NoEventBeforeAuthentication ==
  /\ \A c \in connected : tokens[c] = "valid"
  /\ (last.ev \notin {"init", "handshake"} /\ last.conn \in Conns) => tokens[last.conn] = "valid"
  /\ \A c \in Conns :
       tokens[c] # "valid" =>
         /\ handlers[c] = <<>>
         /\ \A p \in ProjectIds : c \notin rooms[p]
         /\ \A p \in ProjectIds : <<c, p>> \notin pendingJoin
         /\ Sessions(c) = {}

\* an accepted socket attached to a document and published awareness while
\* the handshakes of two other sockets had been refused, one for a token of
\* no user, one for a token that does not verify
C19_Witness ==
  /\ last.ev = "yjs-awareness"
  /\ Sessions(last.conn) # {}
  /\ \E c \in Conns : tokens[c] = "unknown"
  /\ \E c \in Conns : tokens[c] = "invalid"

\* the socket whose yjs-update event emitted the i-th packet sent to socket r
SenderOf(r, i) == delivery.log[delivery.inbox[r][i].n].conn

C21_DisconnectedIsInNoSession ==
  \A c \in Conns \ connected :
    /\ Sessions(c) = {}
    /\ Count(c, "yjs-update") = 0
    /\ Count(c, "yjs-awareness") = 0

\* a socket that had opened two documents is gone, and a socket that is
\* still attached to one of them has sent an update
C21_Witness ==
  /\ last.ev = "yjs-update"
  /\ \E c \in Conns \ connected :
       /\ Len(handlers[c]) = 2
       /\ handlers[c][1] # handlers[c][2]
       /\ handlers[c][2] \in Sessions(last.conn)

\* C25: an update or an awareness state sent by a socket that has detached
\* from its sessions with yjs-disconnect, and has not attached again, changes
\* no server document and is emitted to nobody.
C25_DetachedSenderIsIgnored ==
  [][(last'.ev \in {"yjs-update", "yjs-awareness"} /\ Sessions(last'.conn) = {}) =>
       /\ \A e \in 1 .. Len(entries) : entries'[e].doc = entries[e].doc
       /\ emitted' = NoEmit]_vars

\* C22: a cursor-position sent by a socket that has not joined the project's
\* room, and an awareness state sent by a socket that is attached to no
\* session, is relayed to nobody.
C22_PublishingNeedsAttachment ==
  /\ (last.ev = "cursor-position" /\ last.conn \notin rooms[last.data.projectId]) =>
       Recipients("cursor-updated") = {}
  /\ (last.ev = "yjs-awareness" /\ Sessions(last.conn) = {}) =>
       Recipients("yjs-awareness") = {}

\* C23: a signaling event is delivered to one socket at most, whatever its
\* `to` field names, and never to its sender.
C23_SignalIsPointToPoint ==
  last.ev \in SignalKinds =>
    /\ Cardinality(Recipients(last.ev)) <= 1
    /\ emitted[last.conn] = <<>>

\* C24: a ProjectDoc that has a connection attached is the one projectDocs
\* holds under its key, so the connections attached to one key are all
\* members of one ProjectDoc.
C24_AttachedEntryIsRegistered ==
  \A e \in 1 .. Len(entries) :
    entries[e].connections # {} => projectDocs[entries[e].key] = e

\* C26: a leave-project sent by a socket that is not in the project's room
\* emits nothing, and user-left is emitted only by a leave-project or a
\* disconnect.
C26_UserLeftOnlyForMembers ==
  [][/\ (last'.ev = "leave-project" /\ last'.conn \notin rooms[last'.data]) =>
          emitted' = NoEmit
     /\ last'.ev \notin {"leave-project", "disconnect"} =>
          \A o \in Conns : \A i \in 1 .. Len(emitted'[o]) : emitted'[o][i].ev # "user-left"]_vars

\* the child processes of project p that run: spawned, not signalled, not exited
RunningOf(p) ==
  {n \in 1 .. Len(children) :
     /\ children[n].project = p
     /\ ~children[n].failed /\ ~children[n].killed /\ ~children[n].closed}

\* the child process spawned last for project p, 0 if none
LatestOf(p) ==
  LET mine == {n \in 1 .. Len(children) : children[n].project = p}
  IN  IF mine = {} THEN 0 ELSE CHOOSE n \in mine : \A m \in mine : m <= n

\* C27: per project at most one command process runs, projectProcesses holds
\* no process but the one spawned last, and it holds that one while it runs
\* (so that /status and /stop see it).
C27_OneProcessPerProject ==
  \A p \in ProjectIds :
    /\ Cardinality(RunningOf(p)) <= 1
    /\ projectProcesses[p] # 0 => projectProcesses[p] = LatestOf(p)
    /\ LatestOf(p) \in RunningOf(p) => projectProcesses[p] = LatestOf(p)

\* C28: every /execute request gets one response: no listener or callback
\* answers a request that has its answer, and no request loses its connection
\* unanswered.
C28_ExecuteAnsweredOnce ==
  /\ last.ev # "headers-sent"
  /\ \A n \in 1 .. Len(children) : ~children[n].dropped

\* C29: an accept or decline changes the members or the invites only when the
\* invite with the given id is pending and addressed to the email of the
\* requesting user.
C29_OnlyOwnInvite ==
  [][(last'.ev = "invite-action" /\ (members' # members \/ invites' # invites)) =>
       \E p \in ProjectIds : \E i \in 1 .. Len(invites[p]) :
         /\ invites[p][i].id = last'.data.inviteId
         /\ invites[p][i].email = EmailOf(last'.data.user)
         /\ invites[p][i].status = "pending"]_vars

\* C30: no user is in a project's members twice, no email has two pending
\* invites in a project, and no invite is stored for the email of a user who
\* is a member already.
C30_MembersAndInvitesUnique ==
  /\ \A p \in ProjectIds : \A i, j \in 1 .. Len(members[p]) :
       members[p][i].user = members[p][j].user => i = j
  /\ \A p \in ProjectIds : \A i, j \in 1 .. Len(invites[p]) :
       (/\ invites[p][i].email = invites[p][j].email
        /\ invites[p][i].status = "pending"
        /\ invites[p][j].status = "pending") => i = j
  /\ (last.ev = "invite" /\ last.data.status = 200) =>
       \A i \in 1 .. Len(members[last.data.projectId]) :
         EmailOf(members[last.data.projectId][i].user) # last.data.email

====
